---- MODULE Spec2Model ----
(***************************************************************************)
(* A model of sulfate-xml (src/src/lib.rs): the Name / Element data model, *)
(* the event-driven parser Element::from_stream, the recursive serializer  *)
(* Element::serialize and the Display wrapper.                             *)
(*                                                                         *)
(* Encoding.  Option<T> is a sequence of length 0 (None) or 1 (Some(v)).   *)
(* A text is a sequence of one-character strings.  An Element is a record  *)
(* [name, content]; a content item is [kind |-> "Text", text] or           *)
(* [kind |-> "Child", elem].                                               *)
(***************************************************************************)
EXTENDS Integers, Sequences, FiniteSets, TLC

VARIABLES
  stream,      \* the events of the reader: yielded so far (Spec) or the whole document (SpecDoc)
  pos,         \* number of events from_stream has consumed
  elem_stack,  \* from_stream: let mut elem_stack
  ret,         \* from_stream: let mut ret
  outcome,     \* "running", "Ok", "Err" (a returned Result) or "panic" (assert! failed)
  result,      \* the value handed to the caller: Some(Element), Some(error) or None
  tree,        \* the Element a document / rendering was made from (None in Spec)
  origin,      \* how `stream` was produced from `tree`
  alternate,   \* Display: f.alternate()
  sink,        \* the directives serialize() handed to the EventWriter
  rendered,    \* Display: the text passed to f.write_str
  lhs,         \* Name == Name: left operand
  rhs,         \* Name == Name: right operand
  eq,          \* Name == Name: Some(result) once compared
  fmt_ret,     \* Display: the fmt::Result returned, None while not returned
  cause,       \* Display: which step of fmt failed, None when none did
  pred,        \* first_child_where: the predicate
  found,       \* first_child_where: Some(returned Option) once called
  par          \* two from_stream calls in progress side by side (SpecPar)

vars == <<stream, pos, elem_stack, ret, outcome, result, tree, origin,
          alternate, sink, rendered, lhs, rhs, eq, fmt_ret, cause, pred, found, par>>

parserVars == <<stream, pos, elem_stack, ret, outcome, result>>
docVars == <<tree, origin>>
fmtVars == <<alternate, sink, rendered, fmt_ret, cause>>
nameVars == <<lhs, rhs, eq>>
findVars == <<pred, found>>
parVars == <<par>>

----------------------------------------------------------------------------
(* Bounds *)

\* longest event sequence the unconstrained reader yields before it ends
MaxEvents == 4

\* largest tree (elements plus text items) behind a properly nested event sequence
MaxSize == 4

\* largest tree (elements plus text items) that is serialized
MaxDocSize == 3

\* longest event sequence each of two side-by-side readers yields before it ends
MaxParEvents == 3

----------------------------------------------------------------------------
(* Option *)

None == <<>>

Some(v) == <<v>>

IsSome(o) == Len(o) = 1

Unwrap(o) == o[1]

----------------------------------------------------------------------------
(* Name *)

MkName(local, ns, prefix) == [local_name |-> local, namespace |-> ns, prefix |-> prefix]

\* Name::new_no_ns
NameNoNs(local) == MkName(local, None, None)

\* Name::new_default_ns
NameDefaultNs(local, ns) == MkName(local, Some(ns), None)

\* Name::new
NameNew(local, ns, prefix) == MkName(local, Some(ns), Some(prefix))

\* a comparison that also looks at the prefix
NameEqWithPrefix(x, y) ==
  x.local_name = y.local_name /\ x.namespace = y.namespace /\ x.prefix = y.prefix

\* impl PartialEq for Name
NameEq(x, y) == x.local_name = y.local_name /\ x.namespace = y.namespace

\* impl From<OwnedName> for Name
FromOwnedName(from) ==
  [local_name |-> from.local_name, namespace |-> from.namespace, prefix |-> from.prefix]

----------------------------------------------------------------------------
(* Element *)

Text(t) == [kind |-> "Text", text |-> t]

Child(e) == [kind |-> "Child", elem |-> e]

Elem(name, content) == [name |-> name, content |-> content]

\* text put in front of the content instead of behind it
push_text_front(self, t) == [self EXCEPT !.content = <<Text(t)>> \o @]

\* text joined to a Text item that is already last
push_text_coalescing(self, t) ==
  LET n == Len(self.content)
  IN IF n > 0 /\ self.content[n].kind = "Text"
       THEN [self EXCEPT !.content[n] = Text(@.text \o t)]
       ELSE [self EXCEPT !.content = Append(@, Text(t))]

\* Element::push_text
push_text(self, t) == [self EXCEPT !.content = Append(@, Text(t))]

\* Element::push_child
push_child(self, child) == [self EXCEPT !.content = Append(@, Child(child))]

----------------------------------------------------------------------------
(* Reader events and errors *)

StartElement(name) == [kind |-> "StartElement", name |-> name]

EndElement(name) == [kind |-> "EndElement", name |-> name]

Characters(t) == [kind |-> "Characters", text |-> t]

Whitespace(t) == [kind |-> "Whitespace", text |-> t]

StartDocument == [kind |-> "StartDocument"]

EndDocument == [kind |-> "EndDocument"]

Comment == [kind |-> "Comment"]

\* the events the match in from_stream sends to its `_ => {}` arm
OtherKinds == {"StartDocument", "EndDocument", "Comment", "Whitespace"}

\* the reader's iterator yields Some(Err(e))
Fault(e) == [kind |-> "Fault", error |-> e]

\* the reader's iterator yields None
NoMoreEvents == [kind |-> "None"]

\* the error from_stream builds when no root was recorded
EmptyStreamError == [kind |-> "Syntax", msg |-> "empty stream", row |-> 0, column |-> 0]

\* errors the reader itself can yield
ReaderFaults ==
  { [kind |-> "Syntax", msg |-> "unexpected token", row |-> 1, column |-> 3],
    [kind |-> "Io", msg |-> "read failed", row |-> 0, column |-> 7] }

----------------------------------------------------------------------------
(* from_stream *)

\* a removal that also drops every entry above the one removed
RemoveAtAndAbove(s, i) == SubSeq(s, 1, i - 1)

\* Vec::remove
RemoveAt(s, i) == SubSeq(s, 1, i - 1) \o SubSeq(s, i + 1, Len(s))

\* a search that only ever looks at the top entry (strict LIFO)
MatchTopOnly(stack, name) ==
  IF stack # <<>> /\ NameEq(stack[Len(stack)].name, name) THEN Len(stack) ELSE 0

\* a search that falls back on the top entry when no name matches
MatchIndexOrTop(stack, name) ==
  LET hits == {i \in 1..Len(stack) : NameEq(stack[i].name, name)}
  IN IF hits = {} THEN Len(stack) ELSE CHOOSE i \in hits : \A j \in hits : j <= i

\* for i in (0..elem_stack.len()).rev(): the index (1-based) of the entry nearest
\* the top whose name equals `name`, 0 when there is none
MatchIndex(stack, name) ==
  LET hits == {i \in 1..Len(stack) : NameEq(stack[i].name, name)}
  IN IF hits = {} THEN 0 ELSE CHOOSE i \in hits : \A j \in hits : j <= i

\* the child handed to the oldest open element instead of the newest
PushChildOnBottom(stack, child) ==
  [stack EXCEPT ![1] = push_child(@, child)]

\* elem_stack.last_mut().push_child(child)
PushChildOnTop(stack, child) ==
  [stack EXCEPT ![Len(stack)] = push_child(@, child)]

\* elem_stack.last_mut().push_text(text)
PushTextOnTop(stack, t) ==
  [stack EXCEPT ![Len(stack)] = push_text(@, t)]

\* the parser's locals are dropped and `v` goes to the caller
Return(kind, v) ==
  /\ outcome' = kind
  /\ result' = v
  /\ elem_stack' = <<>>
  /\ ret' = None

\* ReaderEvent::StartElement { name, .. }
OnStartElement(name) ==
  /\ elem_stack' = Append(elem_stack, Elem(FromOwnedName(name), <<>>))
  /\ UNCHANGED <<ret, outcome, result>>

\* ReaderEvent::EndElement { name }
OnEndElement(name) ==
  LET nm == FromOwnedName(name)
      i == MatchIndex(elem_stack, nm)
  IN IF i = 0
       THEN UNCHANGED <<elem_stack, ret, outcome, result>>
       ELSE LET child == elem_stack[i]
                rest == RemoveAt(elem_stack, i)
            IN IF rest # <<>>
                 THEN /\ elem_stack' = PushChildOnTop(rest, child)
                      /\ UNCHANGED <<ret, outcome, result>>
                 ELSE IF IsSome(ret)
                        THEN Return("panic", None)
                        ELSE /\ elem_stack' = rest
                             /\ ret' = Some(child)
                             /\ UNCHANGED <<outcome, result>>

\* ReaderEvent::Characters(text)
OnCharacters(t) ==
  /\ elem_stack' = IF elem_stack # <<>> THEN PushTextOnTop(elem_stack, t) ELSE elem_stack
  /\ UNCHANGED <<ret, outcome, result>>

\* an ignorable event that makes the parser forget what is open
OnOtherResets == elem_stack' = <<>> /\ UNCHANGED <<ret, outcome, result>>

\* _ => {}
OnOther == UNCHANGED <<elem_stack, ret, outcome, result>>

\* a fault that is swallowed once a root has been recorded
OnFaultKeepsRoot(e) ==
  IF IsSome(ret) THEN Return("Ok", Some(Unwrap(ret))) ELSE Return("Err", Some(e))

\* let event = event?;  with event = Err(e)
OnFault(e) == Return("Err", Some(e))

\* an end of stream that hands out the oldest open element when no root was recorded
OnExhaustedTakesOpen ==
  IF IsSome(ret)
    THEN Return("Ok", Some(Unwrap(ret)))
    ELSE IF elem_stack # <<>>
      THEN Return("Ok", Some(elem_stack[1]))
      ELSE Return("Err", Some(EmptyStreamError))

\* an end of stream that refuses a root while elements are still open
OnExhaustedNeedsEmptyStack ==
  IF IsSome(ret) /\ elem_stack = <<>>
    THEN Return("Ok", Some(Unwrap(ret)))
    ELSE Return("Err", Some(EmptyStreamError))

\* the code after the for loop
OnExhausted ==
  IF IsSome(ret)
    THEN Return("Ok", Some(Unwrap(ret)))
    ELSE Return("Err", Some(EmptyStreamError))

\* one turn of `for event in reader`: the iterator's item is Some(Ok(event)),
\* Some(Err(error)) or None
Handle(item) ==
  CASE item.kind = "StartElement" -> OnStartElement(item.name)
    [] item.kind = "EndElement" -> OnEndElement(item.name)
    [] item.kind = "Characters" -> OnCharacters(item.text)
    [] item.kind = "Fault" -> OnFault(item.error)
    [] item.kind = "None" -> OnExhausted
    [] OTHER -> OnOther

----------------------------------------------------------------------------
(* Spec: from_stream over a reader that may yield any event sequence *)

\* the names the unconstrained reader puts in its events
EventNames ==
  { NameNoNs("a"), NameNoNs("b"), NameDefaultNs("a", "urn:x"), NameNew("a", "urn:x", "p") }

EventTexts == { <<"x">> }

\* the variables of the calls that are not made in most specifications
InitRest ==
  /\ fmt_ret = None /\ cause = None
  /\ pred = None /\ found = None
  /\ par = <<>>

InitIdle ==
  /\ tree = None /\ origin = "reader"
  /\ alternate = FALSE /\ sink = <<>> /\ rendered = None
  /\ InitRest
  /\ lhs = NameNoNs("a") /\ rhs = NameNoNs("a") /\ eq = None

InitParser ==
  /\ pos = 0 /\ elem_stack = <<>> /\ ret = None
  /\ outcome = "running" /\ result = None

Init ==
  /\ stream = <<>>
  /\ InitParser
  /\ InitIdle

\* the reader yields `item` and the loop runs on it
Yield(item) ==
  /\ outcome = "running"
  /\ stream' = Append(stream, item)
  /\ pos' = pos + 1
  /\ Handle(item)
  /\ UNCHANGED <<docVars, fmtVars, nameVars, findVars, parVars>>

MoreEvents == Len(stream) < MaxEvents

YieldStart == MoreEvents /\ \E n \in EventNames : Yield(StartElement(n))

YieldEnd == MoreEvents /\ \E n \in EventNames : Yield(EndElement(n))

YieldCharacters == MoreEvents /\ \E t \in EventTexts : Yield(Characters(t))

YieldOther == MoreEvents /\ Yield(Comment)

YieldFault == \E e \in ReaderFaults : Yield(Fault(e))

YieldNone == Yield(NoMoreEvents)

Next ==
  \/ YieldStart
  \/ YieldEnd
  \/ YieldCharacters
  \/ YieldOther
  \/ YieldFault
  \/ YieldNone

Spec == Init /\ [][Next]_vars

----------------------------------------------------------------------------
(* Element::serialize: the directives written to the EventWriter *)

\* format!("{}:{}", prefix, self.name.local_name)
FullName(prefix, local) == <<prefix, ":", local>>

\* XmlEvent::start_element(name) with an optional .ns(prefix, uri) / .default_ns(uri)
StartDirective(qname, decl) == [d |-> "start", qname |-> qname, decl |-> decl]

\* sink.write(text): a characters directive
CharactersDirective(t) == [d |-> "characters", text |-> t]

\* XmlEvent::end_element()
EndDirective == [d |-> "end"]

\* a declaration binding `prefix` (None: the default namespace) to `uri`
Binding(prefix, uri) == [prefix |-> prefix, uri |-> uri]

\* a start directive that never qualifies the tag name
StartOfUnqualified(name) ==
  IF IsSome(name.namespace)
    THEN StartDirective(<<name.local_name>>,
                        Some(Binding(IF IsSome(name.prefix) THEN name.prefix ELSE None,
                                     Unwrap(name.namespace))))
    ELSE StartDirective(<<name.local_name>>, None)

\* a start directive that never declares a namespace
StartOfNoDecl(name) ==
  IF IsSome(name.namespace) /\ IsSome(name.prefix)
    THEN StartDirective(FullName(Unwrap(name.prefix), name.local_name), None)
    ELSE StartDirective(<<name.local_name>>, None)

\* match (&self.name.namespace, &self.name.prefix) { ... }
StartOf(name) ==
  IF IsSome(name.namespace) /\ IsSome(name.prefix)
    THEN StartDirective(FullName(Unwrap(name.prefix), name.local_name),
                        Some(Binding(name.prefix, Unwrap(name.namespace))))
    ELSE IF IsSome(name.namespace)
      THEN StartDirective(<<name.local_name>>, Some(Binding(None, Unwrap(name.namespace))))
      ELSE StartDirective(<<name.local_name>>, None)

RECURSIVE serialize(_)

RECURSIVE serializeContent(_, _)

RECURSIVE serializeContentCachesNs(_, _)

\* a content loop that leaves out a declaration an earlier sibling already made
serializeContentCachesNs(content, i) ==
  IF i > Len(content)
    THEN <<>>
    ELSE (IF content[i].kind = "Text"
            THEN <<CharactersDirective(content[i].text)>>
            ELSE IF \E j \in 1..(i - 1) :
                      /\ content[j].kind = "Child"
                      /\ StartOf(content[j].elem.name).decl = StartOf(content[i].elem.name).decl
                   THEN <<StartOfNoDecl(content[i].elem.name)>>
                        \o serializeContentCachesNs(content[i].elem.content, 1)
                        \o <<EndDirective>>
                   ELSE serialize(content[i].elem))
         \o serializeContentCachesNs(content, i + 1)

\* for item in &self.content { ... }, from item i on
serializeContent(content, i) ==
  IF i > Len(content)
    THEN <<>>
    ELSE (IF content[i].kind = "Text"
            THEN <<CharactersDirective(content[i].text)>>
            ELSE serialize(content[i].elem))
         \o serializeContent(content, i + 1)

\* a serializer that writes no end directive for an element without content
serializeSkipsEndOfEmpty(self) ==
  IF self.content = <<>>
    THEN <<StartOf(self.name)>>
    ELSE <<StartOf(self.name)>> \o serializeContent(self.content, 1) \o <<EndDirective>>

\* Element::serialize
serialize(self) ==
  <<StartOf(self.name)>> \o serializeContent(self.content, 1) \o <<EndDirective>>

----------------------------------------------------------------------------
(* The emitter behind EventWriter (crate xml): directives to markup.  The  *)
(* markup is a sequence of lexical tokens; two character runs written one  *)
(* after the other are one run in the bytes.                               *)

\* <?xml version="1.0" encoding="utf-8"?>
DeclToken == [t |-> "decl"]

\* <prefix:local xmlns...> ; empty = TRUE for the self-closing form <prefix:local ... />
STagToken(prefix, local, xmlns, empty) ==
  [t |-> "stag", prefix |-> prefix, local |-> local, xmlns |-> xmlns, empty |-> empty]

\* </prefix:local>
ETagToken(prefix, local) == [t |-> "etag", prefix |-> prefix, local |-> local]

\* character data
CharsToken(text) == [t |-> "chars", text |-> text]

\* a line break and `level` indentation steps written by the emitter itself
IndentToken(level) == [t |-> "indent", level |-> level]

\* the emitter splits a qualified name at its colon
ParseQName(qname) ==
  IF Len(qname) = 3
    THEN [prefix |-> Some(qname[1]), local |-> qname[3]]
    ELSE [prefix |-> None, local |-> qname[1]]

\* the emitter before the first directive
EmitterInit(perform_indent) ==
  [ out |-> <<>>,                 \* the markup written so far
    nst |-> <<>>,                 \* namespace stack: one set of bindings per open element
    names |-> <<>>,               \* names of the open elements
    indent_level |-> 0,
    indent_stack |-> <<"WroteNothing">>,
    just_wrote_start_element |-> FALSE,
    start_document_emitted |-> FALSE,
    perform_indent |-> perform_indent ]

Top(s) == s[Len(s)]

SetTop(s, v) == [s EXCEPT ![Len(s)] = v]

Pop(s) == SubSeq(s, 1, Len(s) - 1)

\* bytes appended to bytes: a character run after a character run is one run
WriteChars(out, text) ==
  IF text = <<>>
    THEN out
    ELSE IF out # <<>> /\ Top(out).t = "chars"
      THEN SetTop(out, CharsToken(Top(out).text \o text))
      ELSE Append(out, CharsToken(text))

\* the XML declaration goes out before the first directive
EmitDocumentStart(st) ==
  IF st.start_document_emitted
    THEN st
    ELSE [st EXCEPT !.out = Append(@, DeclToken),
                    !.indent_stack = SetTop(@, "WroteMarkup"),
                    !.start_document_emitted = TRUE]

\* the pending start tag is no longer a candidate for the self-closing form
FixNonEmptyElement(st) == [st EXCEPT !.just_wrote_start_element = FALSE]

\* line break and indentation before a start tag
BeforeMarkup(st) ==
  IF st.perform_indent /\ Top(st.indent_stack) # "WroteText"
       /\ (st.indent_level > 0 \/ Top(st.indent_stack) = "WroteMarkup")
    THEN [st EXCEPT !.out = Append(@, IndentToken(st.indent_level)),
                    !.indent_stack = IF st.indent_level > 0 THEN SetTop(@, "WroteMarkup") ELSE @]
    ELSE st

\* a binding is put in the element's own scope unless some open scope already holds it
PutChecked(nst, decl) ==
  IF decl = None \/ (\E k \in 1..Len(nst) : Unwrap(decl) \in nst[k])
    THEN nst
    ELSE SetTop(nst, Top(nst) \cup {Unwrap(decl)})

EmitStartElement(st0, dir) ==
  LET st1 == BeforeMarkup(FixNonEmptyElement(EmitDocumentStart(st0)))
      qn == ParseQName(dir.qname)
      nst1 == PutChecked(Append(st1.nst, {}), dir.decl)
  IN [st1 EXCEPT !.out = Append(@, STagToken(qn.prefix, qn.local, Top(nst1), FALSE)),
                 !.nst = nst1,
                 !.names = Append(@, qn),
                 !.indent_stack = Append(@, "WroteMarkup"),
                 !.indent_level = @ + 1,
                 !.just_wrote_start_element = TRUE]

EmitCharacters(st0, dir) ==
  LET st1 == FixNonEmptyElement(EmitDocumentStart(st0))
  IN [st1 EXCEPT !.out = WriteChars(@, dir.text),
                 !.indent_stack = SetTop(@, "WroteText")]

\* after an end tag: one level up, and markup was written there
AfterEndElement(st) ==
  LET up == IF st.indent_level > 0
              THEN [st EXCEPT !.indent_level = @ - 1, !.indent_stack = Pop(@)]
              ELSE st
  IN [up EXCEPT !.indent_stack = SetTop(@, "WroteMarkup")]

EmitEndElement(st0) ==
  LET qn == Top(st0.names)
      closed == [st0 EXCEPT !.names = Pop(@), !.nst = Pop(@),
                            !.just_wrote_start_element = FALSE]
  IN IF st0.just_wrote_start_element
       THEN AfterEndElement([closed EXCEPT !.out = SetTop(@, [Top(@) EXCEPT !.empty = TRUE])])
       ELSE LET brk == st0.perform_indent /\ st0.indent_level > 0
                         /\ Top(st0.indent_stack) = "WroteMarkup"
                withBreak == IF brk THEN Append(closed.out, IndentToken(st0.indent_level - 1))
                                    ELSE closed.out
            IN AfterEndElement([closed EXCEPT !.out = Append(withBreak, ETagToken(qn.prefix, qn.local))])

\* EventWriter::write on one directive
EmitDirective(st, dir) ==
  CASE dir.d = "start" -> EmitStartElement(st, dir)
    [] dir.d = "characters" -> EmitCharacters(st, dir)
    [] dir.d = "end" -> EmitEndElement(st)

RECURSIVE EmitFrom(_, _, _)

EmitFrom(dirs, i, st) ==
  IF i > Len(dirs) THEN st.out ELSE EmitFrom(dirs, i + 1, EmitDirective(st, dirs[i]))

\* the markup an EventWriter with the given indentation setting writes for the directives
Emit(dirs, perform_indent) == EmitFrom(dirs, 1, EmitterInit(perform_indent))

----------------------------------------------------------------------------
(* The reader behind EventReader (crate xml): markup to events.  The       *)
(* markup read here is the emitter's, so every prefix is declared and      *)
(* every end tag closes the open element.                                  *)

WhitespaceChars == {" ", "\n", "\t"}

IsWhitespace(text) == \A k \in 1..Len(text) : text[k] \in WhitespaceChars

\* the namespace the innermost scope binding `prefix` gives it; None when unbound
Resolve(nst, prefix) ==
  LET hits == {k \in 1..Len(nst) : \E b \in nst[k] : b.prefix = prefix}
  IN IF hits = {}
       THEN None
       ELSE LET top == CHOOSE k \in hits : \A j \in hits : j <= k
            IN Some((CHOOSE b \in nst[top] : b.prefix = prefix).uri)

\* the OwnedName of a tag read in the scopes nst
OwnedName(nst, prefix, local) ==
  [local_name |-> local, namespace |-> Resolve(nst, prefix), prefix |-> prefix]

\* the events one token gives rise to, in the scopes nst (its own included)
TokenEvents(tok, nst) ==
  CASE tok.t = "decl" -> <<>>
    [] tok.t = "stag" ->
         LET nm == OwnedName(nst, tok.prefix, tok.local)
         IN IF tok.empty THEN <<StartElement(nm), EndElement(nm)>> ELSE <<StartElement(nm)>>
    [] tok.t = "etag" -> <<EndElement(OwnedName(nst, tok.prefix, tok.local))>>
    [] tok.t = "chars" ->
         IF IsWhitespace(tok.text)
           THEN (IF nst = <<>> THEN <<>> ELSE <<Whitespace(tok.text)>>)
           ELSE <<Characters(tok.text)>>
    [] tok.t = "indent" -> IF nst = <<>> THEN <<>> ELSE <<Whitespace(<<"\n">>)>>

RECURSIVE TokenizeFrom(_, _, _)

TokenizeFrom(toks, i, nst) ==
  IF i > Len(toks)
    THEN <<EndDocument>>
    ELSE LET tok == toks[i]
             inner == IF tok.t = "stag" THEN Append(nst, tok.xmlns) ELSE nst
             after == IF tok.t = "etag" \/ (tok.t = "stag" /\ tok.empty) THEN Pop(inner) ELSE inner
         IN TokenEvents(tok, inner) \o TokenizeFrom(toks, i + 1, after)

\* the events EventReader yields for the markup
Tokenize(toks) == <<StartDocument>> \o TokenizeFrom(toks, 1, <<>>)

----------------------------------------------------------------------------
(* Trees and documents *)

\* names and texts of the trees that are serialized
TreeNames ==
  { NameNoNs("a"), NameNoNs("b"), NameDefaultNs("a", "urn:x"),
    NameDefaultNs("b", "urn:y"), NameNew("foo", "urn:x", "p") }

TreeTexts == { <<"x">>, <<"y">>, <<" ">>, <<>> }

\* names and texts of the properly nested event sequences
NestedNames == { NameNoNs("a"), NameNoNs("b"), NameNew("a", "urn:x", "p") }

NestedTexts == { <<"x">>, <<"y">>, <<"h", "i">> }

RECURSIVE TreesOfSize(_, _, _)

RECURSIVE ContentsOfSize(_, _, _)

\* the content sequences holding n nodes (text items and elements) in all
ContentsOfSize(n, names, texts) ==
  IF n = 0
    THEN {<<>>}
    ELSE UNION { { <<item>> \o tail :
                     item \in (IF k = 1 THEN {Text(t) : t \in texts} ELSE {})
                              \cup {Child(e) : e \in TreesOfSize(k, names, texts)},
                     tail \in ContentsOfSize(n - k, names, texts) } : k \in 1..n }

\* the elements holding n nodes in all, themselves included
TreesOfSize(n, names, texts) ==
  IF n = 0
    THEN {}
    ELSE { Elem(nm, c) : nm \in names, c \in ContentsOfSize(n - 1, names, texts) }

TreesUpTo(max, names, texts) == UNION { TreesOfSize(n, names, texts) : n \in 1..max }

\* the trees that are serialized
Trees == TreesUpTo(MaxDocSize, TreeNames, TreeTexts)

\* the trees whose properly nested event sequences are parsed
NestedTrees == TreesUpTo(MaxSize, NestedNames, NestedTexts)

RECURSIVE NestedEvents(_)

RECURSIVE NestedContent(_, _)

NestedContent(content, i) ==
  IF i > Len(content)
    THEN <<>>
    ELSE (IF content[i].kind = "Text"
            THEN <<Characters(content[i].text)>>
            ELSE NestedEvents(content[i].elem))
         \o NestedContent(content, i + 1)

\* the properly nested event sequence in which each element's start and end
\* events enclose exactly the events of its content, in order
NestedEvents(e) ==
  <<StartElement(e.name)>> \o NestedContent(e.content, 1) \o <<EndElement(e.name)>>

\* Element::into_stream followed by EventReader::new on the bytes written
Document(e) == Tokenize(Emit(serialize(e), FALSE))

----------------------------------------------------------------------------
(* SpecDoc: from_stream over the events of a document made from a tree *)

InitDoc ==
  /\ origin \in {"nested", "serialized"}
  /\ tree \in {Some(e) : e \in IF origin = "nested" THEN NestedTrees ELSE Trees}
  /\ stream = (IF origin = "nested"
                 THEN <<StartDocument>> \o NestedEvents(Unwrap(tree)) \o <<EndDocument>>
                 ELSE Document(Unwrap(tree))) \o <<NoMoreEvents>>
  /\ InitParser
  /\ alternate = FALSE /\ sink = <<>> /\ rendered = None
  /\ InitRest
  /\ lhs = NameNoNs("a") /\ rhs = NameNoNs("a") /\ eq = None

\* the reader yields the next event of the document and the loop body runs on it
Read(kinds) ==
  /\ outcome = "running"
  /\ pos < Len(stream)
  /\ stream[pos + 1].kind \in kinds
  /\ pos' = pos + 1
  /\ Handle(stream[pos + 1])
  /\ UNCHANGED <<stream, docVars, fmtVars, nameVars, findVars, parVars>>

ReadStart == Read({"StartElement"})

ReadEnd == Read({"EndElement"})

ReadCharacters == Read({"Characters"})

ReadOther == Read(OtherKinds)

ReadNone == Read({"None"})

NextDoc ==
  \/ ReadStart
  \/ ReadEnd
  \/ ReadCharacters
  \/ ReadOther
  \/ ReadNone

SpecDoc == InitDoc /\ [][NextDoc]_vars

----------------------------------------------------------------------------
(* Structural comparison of trees *)

RECURSIVE StructEq(_, _)

\* same names under Name equality, same content items in the same order,
\* same text in each Text item
StructEq(e, f) ==
  /\ NameEq(e.name, f.name)
  /\ Len(e.content) = Len(f.content)
  /\ \A k \in 1..Len(e.content) :
       /\ e.content[k].kind = f.content[k].kind
       /\ IF e.content[k].kind = "Text"
            THEN e.content[k].text = f.content[k].text
            ELSE StructEq(e.content[k].elem, f.content[k].elem)

RECURSIVE TextsSurvive(_)

\* every Text item holds a character that is not whitespace, and no two Text
\* items are neighbours, in this element and below
TextsSurvive(e) ==
  /\ \A k \in 1..Len(e.content) :
       IF e.content[k].kind = "Text"
         THEN /\ ~IsWhitespace(e.content[k].text)
              /\ k < Len(e.content) => e.content[k + 1].kind # "Text"
         ELSE TextsSurvive(e.content[k].elem)

\* the binding an element's name asks for: its prefix (None: the default) to its namespace
OwnBinding(name) ==
  IF IsSome(name.namespace)
    THEN {Binding(IF IsSome(name.prefix) THEN name.prefix ELSE None, Unwrap(name.namespace))}
    ELSE {}

RECURSIVE BindingsAgree(_, _)

\* no element binds a prefix (or the default) that an enclosing element binds
\* to another namespace, and no element without a namespace lies below an
\* element with a default namespace; `bound` holds the enclosing bindings
BindingsAgree(e, bound) ==
  /\ IF IsSome(e.name.namespace)
       THEN \A b \in bound : \A o \in OwnBinding(e.name) : b.prefix = o.prefix => b.uri = o.uri
       ELSE \A b \in bound : b.prefix # None
  /\ \A k \in 1..Len(e.content) :
       e.content[k].kind = "Child" =>
         BindingsAgree(e.content[k].elem, bound \cup OwnBinding(e.name))

\* the trees the markup can represent as they are
Representable(e) == TextsSurvive(e) /\ BindingsAgree(e, {})

ParsedSerialized == origin = "serialized" /\ outcome # "running"

----------------------------------------------------------------------------
(* Properties of from_stream under Spec *)

\* this step is one turn of the loop
Stepped == pos' = pos + 1

\* the item the reader yielded in this step
Pulled == stream'[pos']

\* same local name and same namespace (an absent one only equals an absent one)
SameQualifiedName(x, y) == x.local_name = y.local_name /\ x.namespace = y.namespace

HasMatch(stack, n) == \E i \in 1..Len(stack) : SameQualifiedName(stack[i].name, n)

\* the matching entry closest to the top
Nearest(stack, n) ==
  CHOOSE i \in 1..Len(stack) :
    /\ SameQualifiedName(stack[i].name, n)
    /\ \A j \in (i + 1)..Len(stack) : ~SameQualifiedName(stack[j].name, n)

\* s is an initial part of t
IsPrefixOf(s, t) == Len(s) <= Len(t) /\ SubSeq(t, 1, Len(s)) = s

\* this step handles an end-element event that has a match on the stack
EndWithMatch == Stepped /\ Pulled.kind = "EndElement" /\ HasMatch(elem_stack, Pulled.name)

\* this step handles an end-element event that empties the stack after a root was recorded
SecondRootStep == EndWithMatch /\ Len(elem_stack) = 1 /\ IsSome(ret)

\* C2: an end-element event that leaves the stack empty while a root is already
\* recorded ends the parse with a returned error value, never with a panic
C2_SecondRootIsReturnedError ==
  [][SecondRootStep => (outcome' = "Err" /\ result' # None)]_vars

a0 == NameNoNs("a")

b0 == NameNoNs("b")

\* C3: an end-element event with a match removes exactly one entry, the match
\* nearest the top (prefix ignored), top or not; the other entries keep their
\* names, order and content (the new top may gain the removed child)
C3_NearestMatchRemoval ==
  [][EndWithMatch =>
       LET i == Nearest(elem_stack, Pulled.name)
           expect == RemoveAt(elem_stack, i)
       IN /\ Len(elem_stack') = Len(elem_stack) - 1
          /\ \A k \in 1..Len(expect) :
               /\ elem_stack'[k].name = expect[k].name
               /\ IsPrefixOf(expect[k].content, elem_stack'[k].content)
               /\ k < Len(expect) => elem_stack'[k] = expect[k]]_vars

\* <p:a xmlns:p="urn:x">, <b> and <a> were opened and the end of an unprefixed
\* a in urn:x removed p:a from the bottom, under b and the a without namespace
C3_Witness ==
  /\ Len(stream) = 4
  /\ stream[1] = StartElement(NameNew("a", "urn:x", "p"))
  /\ stream[2] = StartElement(b0)
  /\ stream[3] = StartElement(a0)
  /\ stream[4] = EndElement(NameDefaultNs("a", "urn:x"))
  /\ Len(elem_stack) = 2
  /\ elem_stack[1] = Elem(b0, <<>>)
  /\ elem_stack[2] = Elem(a0, <<Child(Elem(NameNew("a", "urn:x", "p"), <<>>))>>)

\* C4: an end-element event that removes an entry below the top appends the
\* removed element as the last Child item of the entry that is then on top;
\* Start a, Start b, End a, End b parses to root b with content [Child(a)]
C4_OutOfOrderClose ==
  /\ [][(EndWithMatch /\ Nearest(elem_stack, Pulled.name) < Len(elem_stack)) =>
          LET i == Nearest(elem_stack, Pulled.name)
              expect == RemoveAt(elem_stack, i)
          IN /\ elem_stack' # <<>>
             /\ elem_stack'[Len(elem_stack')].content
                  = Append(expect[Len(expect)].content, Child(elem_stack[i]))]_vars
  /\ []((/\ stream = <<StartElement(a0), StartElement(b0), EndElement(a0), EndElement(b0),
                       NoMoreEvents>>
         /\ outcome # "running")
          => (outcome = "Ok" /\ result = Some(Elem(b0, <<Child(Elem(a0, <<>>))>>))))

\* Start a, Start b, End a, End b and the end of the stream were handled
C4_Witness ==
  /\ stream = <<StartElement(a0), StartElement(b0), EndElement(a0), EndElement(b0), NoMoreEvents>>
  /\ outcome = "Ok"
  /\ Unwrap(result).name = b0

\* C5: when the reader ends and no root was recorded the parse returns the
\* "empty stream" error at row 0, column 0 and no Element; when a root was
\* recorded it returns that root
C5_ExhaustedStream ==
  [][(Stepped /\ Pulled.kind = "None") =>
       IF IsSome(ret)
         THEN outcome' = "Ok" /\ result' = ret
         ELSE /\ outcome' = "Err"
              /\ Unwrap(result').msg = "empty stream"
              /\ Unwrap(result').row = 0 /\ Unwrap(result').column = 0]_vars

\* an element was opened, given text and never closed, and the parse failed
C5_Witness ==
  /\ Len(stream) = 3
  /\ stream[1].kind = "StartElement"
  /\ stream[2].kind = "Characters"
  /\ stream[3].kind = "None"
  /\ outcome = "Err"
  /\ result = Some(EmptyStreamError)

\* C9: when the reader yields a fault the parse returns exactly that fault, no
\* Element, whatever root was recorded, and the stack is dropped
C9_FaultPropagation ==
  [][(Stepped /\ Pulled.kind = "Fault") =>
       /\ outcome' = "Err"
       /\ result' = Some(Pulled.error)
       /\ elem_stack' = <<>>
       /\ ret' = None]_vars

\* a root was recorded, another element opened, and then the reader failed
C9_Witness ==
  /\ Len(stream) = 4
  /\ stream[1].kind = "StartElement"
  /\ stream[2].kind = "EndElement"
  /\ SameQualifiedName(stream[1].name, stream[2].name)
  /\ stream[3].kind = "StartElement"
  /\ stream[4].kind = "Fault"
  /\ outcome = "Err"
  /\ result = Some(stream[4].error)

----------------------------------------------------------------------------
(* Properties of from_stream under SpecDoc *)

ParsedNested == origin = "nested" /\ outcome # "running"

\* the events of <a>x<b/>y</a>
MixedContentEvents ==
  <<StartDocument, StartElement(a0), Characters(<<"x">>), StartElement(b0), EndElement(b0),
    Characters(<<"y">>), EndElement(a0), EndDocument, NoMoreEvents>>

\* the events of <a><b>hi</b></a>
BasicParseEvents ==
  <<StartDocument, StartElement(a0), StartElement(b0), Characters(<<"h", "i">>),
    EndElement(b0), EndElement(a0), EndDocument, NoMoreEvents>>

\* C6: the parse of a properly nested single-root event sequence returns the
\* tree in which each element holds exactly the texts and elements directly
\* inside it, in stream order; <a>x<b/>y</a> gives a with [Text x, Child b,
\* Text y] and <a><b>hi</b></a> gives a with one child b holding [Text hi]
C6_DocumentOrder ==
  /\ ParsedNested => (outcome = "Ok" /\ result = tree)
  /\ (stream = MixedContentEvents /\ outcome # "running")
       => result = Some(Elem(a0, <<Text(<<"x">>), Child(Elem(b0, <<>>)), Text(<<"y">>)>>))
  /\ (stream = BasicParseEvents /\ outcome # "running")
       => result = Some(Elem(a0, <<Child(Elem(b0, <<Text(<<"h", "i">>)>>))>>))

\* the events of <a>x<b/>y</a> were parsed to the end
C6_Witness ==
  /\ origin = "nested"
  /\ stream = MixedContentEvents
  /\ outcome = "Ok"
  /\ Len(Unwrap(result).content) = 3

----------------------------------------------------------------------------
(* SpecName: Name == Name on a pair of names *)

Locals == {"a", "b"}

Namespaces == {None, Some("urn:x"), Some("urn:y")}

Prefixes == {None, Some("p"), Some("q")}

AllNames == {MkName(l, n, q) : l \in Locals, n \in Namespaces, q \in Prefixes}

InitName ==
  /\ lhs \in AllNames /\ rhs \in AllNames /\ eq = None
  /\ stream = <<>> /\ InitParser
  /\ tree = None /\ origin = "none"
  /\ alternate = FALSE /\ sink = <<>> /\ rendered = None
  /\ InitRest

\* lhs == rhs
Compare ==
  /\ eq = None
  /\ eq' = Some(NameEq(lhs, rhs))
  /\ UNCHANGED <<lhs, rhs, parserVars, docVars, fmtVars, findVars, parVars>>

NextName == Compare

SpecName == InitName /\ [][NextName]_vars

\* C7: x == y exactly when local names and namespaces agree (absent only with
\* absent); names differing only in prefix are equal, names differing in
\* namespace or local name are not
C7_NameEquality ==
  IsSome(eq) =>
    /\ Unwrap(eq) <=> (lhs.local_name = rhs.local_name /\ lhs.namespace = rhs.namespace)
    /\ (lhs.local_name = rhs.local_name /\ lhs.namespace = rhs.namespace
          /\ lhs.prefix # rhs.prefix) => Unwrap(eq)
    /\ (lhs.local_name # rhs.local_name \/ lhs.namespace # rhs.namespace) => ~Unwrap(eq)

\* two names differing only in prefix were compared and found equal
C7_Witness ==
  /\ eq = Some(TRUE)
  /\ lhs = NameNew("a", "urn:x", "p")
  /\ rhs = NameNew("a", "urn:x", "q")

----------------------------------------------------------------------------
(* SpecFmt: impl fmt::Display for Element *)

\* EmitterConfig::new().perform_indent(f.alternate())
EmitterConfig(flag) == [perform_indent |-> flag]

\* String::from_utf8(buf): the emitter's markup as text
FromUtf8(markup) == Some(markup)

RECURSIVE TrimmedContent(_, _)

TrimmedContent(content, i) ==
  IF i > Len(content)
    THEN <<>>
    ELSE (IF content[i].kind = "Text"
            THEN (IF IsWhitespace(content[i].text) THEN <<>> ELSE <<content[i]>>)
            ELSE <<Child([content[i].elem EXCEPT !.content = TrimmedContent(@, 1)])>>)
         \o TrimmedContent(content, i + 1)

\* a pretty printer that leaves whitespace-only text out of what it serializes
fmtPrettyTrims(self, flag) ==
  LET config == EmitterConfig(flag)
      shown == IF flag THEN [self EXCEPT !.content = TrimmedContent(@, 1)] ELSE self
      directives == serialize(shown)
  IN [directives |-> directives,
      text |-> FromUtf8(Emit(directives, config.perform_indent))]

\* Display::fmt: the directives written to the EventWriter and the text given to write_str
fmt(self, flag) ==
  LET config == EmitterConfig(flag)
      directives == serialize(self)
  IN [directives |-> directives,
      text |-> FromUtf8(Emit(directives, config.perform_indent))]

InitFmt ==
  /\ tree \in {Some(e) : e \in Trees}
  /\ alternate \in BOOLEAN
  /\ sink = <<>> /\ rendered = None
  /\ InitRest
  /\ origin = "built"
  /\ stream = <<>> /\ InitParser
  /\ lhs = NameNoNs("a") /\ rhs = NameNoNs("a") /\ eq = None

\* Ok(())
FmtOk == "Ok"

\* Err(fmt::Error): a unit value
FmtError == "fmt::Error"

\* the errors EventWriter::write can return
WriterFaults == {"Io", "EmitterError"}

\* the error String::from_utf8 can return
Utf8Faults == {"FromUtf8Error"}

\* .map_err(|_| fmt::Error) on the result of self.serialize
MapSerializeErr(e) == FmtError

\* a mapping that keeps the decoding error apart
MapDecodeErrDetailed(e) == e

\* .map_err(|_| fmt::Error) on the result of String::from_utf8
MapDecodeErr(e) == FmtError

\* format!("{}", tree) or format!("{:#}", tree), every step succeeding
Format ==
  /\ fmt_ret = None
  /\ LET r == fmt(Unwrap(tree), alternate)
     IN sink' = r.directives /\ rendered' = r.text
  /\ fmt_ret' = Some(FmtOk)
  /\ UNCHANGED <<cause, tree, origin, alternate, parserVars, nameVars, findVars, parVars>>

\* the k-th sink.write of self.serialize returns an error
FormatSerializeFails ==
  /\ fmt_ret = None
  /\ \E e \in WriterFaults :
       LET dirs == serialize(Unwrap(tree))
       IN \E k \in 1..Len(dirs) :
            /\ sink' = SubSeq(dirs, 1, k - 1)
            /\ fmt_ret' = Some(MapSerializeErr(e))
  /\ cause' = Some("serialize")
  /\ UNCHANGED <<rendered, tree, origin, alternate, parserVars, nameVars, findVars, parVars>>

\* self.serialize succeeds and String::from_utf8(buf) returns an error
FormatDecodeFails ==
  /\ fmt_ret = None
  /\ sink' = serialize(Unwrap(tree))
  /\ \E e \in Utf8Faults : fmt_ret' = Some(MapDecodeErr(e))
  /\ cause' = Some("decode")
  /\ UNCHANGED <<rendered, tree, origin, alternate, parserVars, nameVars, findVars, parVars>>

\* serializing and decoding succeed and f.write_str returns an error
FormatWriteStrFails ==
  /\ fmt_ret = None
  /\ sink' = serialize(Unwrap(tree))
  /\ fmt_ret' = Some(FmtError)
  /\ cause' = Some("write_str")
  /\ UNCHANGED <<rendered, tree, origin, alternate, parserVars, nameVars, findVars, parVars>>

NextFmt ==
  \/ Format
  \/ FormatSerializeFails
  \/ FormatDecodeFails
  \/ FormatWriteStrFails

SpecFmt == InitFmt /\ [][NextFmt]_vars

RECURSIVE NamesInOrder(_)

RECURSIVE NamesInContent(_, _)

NamesInContent(content, i) ==
  IF i > Len(content)
    THEN <<>>
    ELSE (IF content[i].kind = "Child" THEN NamesInOrder(content[i].elem) ELSE <<>>)
         \o NamesInContent(content, i + 1)

\* the names of the elements of a tree in document order
NamesInOrder(e) == <<e.name>> \o NamesInContent(e.content, 1)

IsStart(dir) == dir.d = "start"

IsSTag(tok) == tok.t = "stag"

\* the start directive the 3-way rule asks for
RuleStart(name) ==
  CASE IsSome(name.namespace) /\ IsSome(name.prefix) ->
         [d |-> "start",
          qname |-> <<Unwrap(name.prefix), ":", name.local_name>>,
          decl |-> Some([prefix |-> name.prefix, uri |-> Unwrap(name.namespace)])]
    [] IsSome(name.namespace) /\ ~IsSome(name.prefix) ->
         [d |-> "start",
          qname |-> <<name.local_name>>,
          decl |-> Some([prefix |-> None, uri |-> Unwrap(name.namespace)])]
    [] ~IsSome(name.namespace) /\ ~IsSome(name.prefix) ->
         [d |-> "start", qname |-> <<name.local_name>>, decl |-> None]

Formatted == rendered # None

\* C8: the start directive of every element follows the 3-way rule on
\* (namespace, prefix); a root foo in urn:x with prefix p opens as p:foo with
\* the binding p -> urn:x
C8_StartDirectiveRule ==
  Formatted =>
    LET starts == SelectSeq(sink, IsStart)
        names == NamesInOrder(Unwrap(tree))
        stags == SelectSeq(Unwrap(rendered), IsSTag)
    IN /\ Len(starts) = Len(names)
       /\ \A k \in 1..Len(names) : starts[k] = RuleStart(names[k])
       /\ Unwrap(tree).name = NameNew("foo", "urn:x", "p") =>
            /\ stags[1].prefix = Some("p") /\ stags[1].local = "foo"
            /\ stags[1].xmlns = {[prefix |-> Some("p"), uri |-> "urn:x"]}

\* a tree whose root is p:foo in urn:x, with a child in a default namespace and
\* a child without namespace, was formatted
C8_Witness ==
  /\ Formatted
  /\ Unwrap(tree).name = NameNew("foo", "urn:x", "p")
  /\ Len(Unwrap(tree).content) = 2
  /\ Unwrap(tree).content[1] = Child(Elem(NameDefaultNs("a", "urn:x"), <<>>))
  /\ Unwrap(tree).content[2] = Child(Elem(b0, <<>>))

IsNotIndent(tok) == tok.t # "indent"

\* C10: with the pretty-print flag on, the emitter is handed the directives it
\* is handed with the flag off, and the text differs from the compact text only
\* by the line breaks and indentation the emitter put between tags
C10_PrettyVsCompact ==
  Formatted =>
    LET compact == fmt(Unwrap(tree), FALSE)
    IN /\ sink = compact.directives
       /\ SelectSeq(Unwrap(rendered), IsNotIndent) = Unwrap(compact.text)

\* a tree with a whitespace text, a child and a grandchild-free sibling was
\* pretty-printed and the emitter did indent
C10_Witness ==
  /\ Formatted /\ alternate
  /\ Len(Unwrap(tree).content) = 2
  /\ Unwrap(tree).content[1] = Text(<<" ">>)
  /\ Unwrap(tree).content[2].kind = "Child"
  /\ \E k \in 1..Len(Unwrap(rendered)) : Unwrap(rendered)[k].t = "indent"

----------------------------------------------------------------------------
(* More properties of from_stream under Spec *)

\* C15: a text event on a non-empty stack appends one new Text item with the
\* event's text to the end of the top entry's content and changes nothing
\* else; a text event on an empty stack changes neither stack nor result slot
C15_TextEvents ==
  [][(Stepped /\ Pulled.kind = "Characters") =>
       /\ UNCHANGED <<ret, outcome, result>>
       /\ Len(elem_stack') = Len(elem_stack)
       /\ \A k \in 1..Len(elem_stack) :
            IF k = Len(elem_stack)
              THEN /\ elem_stack'[k].name = elem_stack[k].name
                   /\ elem_stack'[k].content
                        = elem_stack[k].content \o <<[kind |-> "Text", text |-> Pulled.text]>>
              ELSE elem_stack'[k] = elem_stack[k]]_vars

\* under an open a, b received two text events in a row and holds two Text items
C15_Witness ==
  /\ Len(stream) = 4
  /\ stream[1].kind = "StartElement" /\ stream[2].kind = "StartElement"
  /\ stream[3].kind = "Characters" /\ stream[4].kind = "Characters"
  /\ Len(elem_stack) = 2
  /\ elem_stack[1].content = <<>>
  /\ elem_stack[2].content = <<Text(stream[3].text), Text(stream[4].text)>>

\* C18: an end-element event whose name equals no stack entry's name changes
\* neither the stack, nor any stacked element, nor the result slot, and the
\* parse goes on without an error
C18_UnmatchedEndIsNoOp ==
  [][(Stepped /\ Pulled.kind = "EndElement" /\ ~HasMatch(elem_stack, Pulled.name)) =>
       /\ UNCHANGED <<elem_stack, ret, outcome, result>>
       /\ outcome' = "running"]_vars

\* a was opened and given text, then an end of a in urn:x found no match
C18_Witness ==
  /\ Len(stream) = 3
  /\ stream[1] = StartElement(a0)
  /\ stream[2].kind = "Characters"
  /\ stream[3] = EndElement(NameDefaultNs("a", "urn:x"))
  /\ elem_stack = <<Elem(a0, <<Text(stream[2].text)>>)>>
  /\ outcome = "running"

\* C19: once a root is recorded the result slot keeps it while the parse runs,
\* and at the end of the stream that root is returned as it was recorded,
\* whatever is still on the stack
C19_LeftoversAreDiscarded ==
  /\ [][(IsSome(ret) /\ outcome' = "running") => ret' = ret]_vars
  /\ [][(Stepped /\ Pulled.kind = "None" /\ IsSome(ret) /\ elem_stack # <<>>) =>
          (outcome' = "Ok" /\ result' = ret /\ elem_stack' = <<>>)]_vars

\* a was closed as the root, b was opened and given text, and the stream ended
C19_Witness ==
  /\ Len(stream) = 5
  /\ stream[1] = StartElement(a0) /\ stream[2] = EndElement(a0)
  /\ stream[3] = StartElement(b0) /\ stream[4].kind = "Characters"
  /\ stream[5] = NoMoreEvents
  /\ outcome = "Ok"
  /\ result = Some(Elem(a0, <<>>))

RECURSIVE ElemCount(_)

RECURSIVE ElemCountIn(_, _)

\* the elements in the items of a sequence of content items, from item i on
ElemCountIn(content, i) ==
  IF i > Len(content)
    THEN 0
    ELSE (IF content[i].kind = "Child" THEN ElemCount(content[i].elem) ELSE 0)
         + ElemCountIn(content, i + 1)

\* the elements of a tree, its root included
ElemCount(e) == 1 + ElemCountIn(e.content, 1)

RECURSIVE ForestCount(_, _)

\* the elements of the trees of a sequence, from tree i on
ForestCount(trees, i) ==
  IF i > Len(trees) THEN 0 ELSE ElemCount(trees[i]) + ForestCount(trees, i + 1)

IsStartEvent(item) == item.kind = "StartElement"

\* C20: while the parse runs, the elements held by the stack entries and
\* their subtrees plus those of the recorded root are as many as the
\* start-element events handled: none is lost and none is held twice
C20_Conservation ==
  outcome = "running" =>
    Len(SelectSeq(stream, IsStartEvent)) = ForestCount(elem_stack, 1) + ForestCount(ret, 1)

\* three elements were opened and the lowest was closed from under the others
C20_Witness ==
  /\ outcome = "running"
  /\ Len(stream) = 4
  /\ stream[1].kind = "StartElement" /\ stream[2].kind = "StartElement"
  /\ stream[3].kind = "StartElement" /\ stream[4].kind = "EndElement"
  /\ Len(elem_stack) = 2
  /\ ForestCount(elem_stack, 1) = 3
  /\ elem_stack[2].content = <<Child(Elem(stream[1].name, <<>>))>>

----------------------------------------------------------------------------
(* from_stream as a function of the items its reader yields: one call is a  *)
(* record of the items read and of the call's locals and return value       *)

\* a call that has read nothing yet
NewCall ==
  [stream |-> <<>>, elem_stack |-> <<>>, ret |-> None, outcome |-> "running", result |-> None]

\* the call returns (or panics): its locals are dropped
Returned(c, kind, v) ==
  [c EXCEPT !.outcome = kind, !.result = v, !.elem_stack = <<>>, !.ret = None]

\* the EndElement arm on the locals of call c
TurnEnd(c, name) ==
  LET nm == FromOwnedName(name)
      i == MatchIndex(c.elem_stack, nm)
  IN IF i = 0
       THEN c
       ELSE LET child == c.elem_stack[i]
                rest == RemoveAt(c.elem_stack, i)
            IN IF rest # <<>>
                 THEN [c EXCEPT !.elem_stack = PushChildOnTop(rest, child)]
                 ELSE IF IsSome(c.ret)
                        THEN Returned(c, "panic", None)
                        ELSE [c EXCEPT !.elem_stack = rest, !.ret = Some(child)]

\* one turn of the loop of call c on the item its reader yields
Turn(c0, item) ==
  LET c == [c0 EXCEPT !.stream = Append(@, item)]
  IN CASE item.kind = "StartElement" ->
            [c EXCEPT !.elem_stack = Append(@, Elem(FromOwnedName(item.name), <<>>))]
       [] item.kind = "EndElement" -> TurnEnd(c, item.name)
       [] item.kind = "Characters" ->
            IF c.elem_stack # <<>>
              THEN [c EXCEPT !.elem_stack = PushTextOnTop(@, item.text)]
              ELSE c
       [] item.kind = "Fault" -> Returned(c, "Err", Some(item.error))
       [] item.kind = "None" ->
            IF IsSome(c.ret)
              THEN Returned(c, "Ok", Some(Unwrap(c.ret)))
              ELSE Returned(c, "Err", Some(EmptyStreamError))
       [] OTHER -> c

RECURSIVE RunFrom(_, _, _)

RunFrom(items, i, c) ==
  IF i > Len(items) \/ c.outcome # "running"
    THEN c
    ELSE RunFrom(items, i + 1, Turn(c, items[i]))

\* the call on a reader that yields `items`, run on its own
RunAlone(items) == RunFrom(items, 1, NewCall)

IsNotIgnorable(item) == item.kind \notin OtherKinds

\* C17: an event that is no start-element, end-element or text event leaves
\* stack and result slot as they are, so the parse of a stream is the parse of
\* the stream with those events deleted
C17_IgnorableEvents ==
  /\ [][(Stepped /\ Pulled.kind \in OtherKinds) =>
          UNCHANGED <<elem_stack, ret, outcome, result>>]_vars
  /\ [](LET bare == RunAlone(SelectSeq(stream, IsNotIgnorable))
        IN /\ elem_stack = bare.elem_stack /\ ret = bare.ret
           /\ outcome = bare.outcome /\ result = bare.result)

\* comments came before, inside and after an element that was parsed as the root
C17_Witness ==
  /\ stream = <<Comment, StartElement(a0), Comment, EndElement(a0), NoMoreEvents>>
  /\ outcome = "Ok"
  /\ result = Some(Elem(a0, <<>>))

----------------------------------------------------------------------------
(* SpecPar: two from_stream calls, each on its own reader, their loop turns *)
(* interleaved in any order                                                 *)

Calls == {1, 2}

\* the items the two readers yield
ParEvents == { StartElement(a0), StartElement(b0), EndElement(a0), Characters(<<"x">>) }

ParFaults == { [kind |-> "Syntax", msg |-> "unexpected token", row |-> 1, column |-> 3] }

\* a turn that takes the result slot from the other call, as if `ret` were one
\* slot of the process
ParTurnSharedSlot(calls, p, item) ==
  Turn([calls[p] EXCEPT !.ret = calls[3 - p].ret], item)

\* a turn of call p: elem_stack and ret are locals of that call
ParTurn(calls, p, item) == Turn(calls[p], item)

InitPar ==
  /\ par = <<NewCall, NewCall>>
  /\ stream = <<>> /\ InitParser
  /\ tree = None /\ origin = "reader"
  /\ alternate = FALSE /\ sink = <<>> /\ rendered = None
  /\ fmt_ret = None /\ cause = None
  /\ pred = None /\ found = None
  /\ lhs = NameNoNs("a") /\ rhs = NameNoNs("a") /\ eq = None

\* the reader of call p yields `item` and the loop of call p runs on it
ParYield(p, item) ==
  /\ par[p].outcome = "running"
  /\ par' = [par EXCEPT ![p] = ParTurn(par, p, item)]
  /\ UNCHANGED <<parserVars, docVars, fmtVars, nameVars, findVars>>

ParYieldEvent ==
  \E p \in Calls : Len(par[p].stream) < MaxParEvents /\ \E ev \in ParEvents : ParYield(p, ev)

ParYieldFault == \E p \in Calls : \E e \in ParFaults : ParYield(p, Fault(e))

ParYieldNone == \E p \in Calls : ParYield(p, NoMoreEvents)

NextPar ==
  \/ ParYieldEvent
  \/ ParYieldFault
  \/ ParYieldNone

SpecPar == InitPar /\ [][NextPar]_vars

\* C14: however the turns of two calls are interleaved, each call is where it
\* is when run alone on the items its own reader yielded, in particular it
\* returns the same tree or error; a turn of one call leaves the other call's
\* stack and result slot as they are
C14_IndependentCalls ==
  /\ [](\A p \in Calls : par[p] = RunAlone(par[p].stream))
  /\ [][\A p \in Calls :
          par'[p].stream # par[p].stream =>
            /\ par'[3 - p].elem_stack = par[3 - p].elem_stack
            /\ par'[3 - p].ret = par[3 - p].ret
            /\ par'[3 - p].result = par[3 - p].result]_vars

\* call 1 recorded its root a and returned it while call 2, on another stream,
\* had b open with text and then closed its own root
C14_Witness ==
  /\ par[1].stream = <<StartElement(a0), EndElement(a0), NoMoreEvents>>
  /\ par[1].outcome = "Ok" /\ par[1].result = Some(Elem(a0, <<>>))
  /\ par[2].stream = <<StartElement(a0), Characters(<<"x">>), EndElement(a0)>>
  /\ par[2].outcome = "running"
  /\ par[2].ret = Some(Elem(a0, <<Text(<<"x">>)>>))

----------------------------------------------------------------------------
(* More properties of Display::fmt and serialize under SpecFmt *)

\* C11 as stated: what the caller gets when decoding the buffer fails differs
\* from what it gets when the serializer fails
C11_DecodeFailureIsDistinct ==
  cause = Some("decode") => \A e \in WriterFaults : fmt_ret # Some(MapSerializeErr(e))

\* C11 amended: a failure to decode the buffer and a failure of the serializer
\* are surfaced to the caller as one and the same fmt::Error, which carries no
\* detail, and no text is written
C11_FailuresAreOneOpaqueError ==
  IsSome(cause) => (fmt_ret = Some("fmt::Error") /\ rendered = None)

\* the serializer wrote all its directives and decoding the buffer failed
C11_Witness ==
  /\ cause = Some("decode")
  /\ fmt_ret = Some(FmtError)
  /\ Len(sink) >= 2

\* the element being read back from a directive sequence
Open(start) == [start |-> start, content |-> <<>>]

RECURSIVE Rebuild(_, _, _, _)

\* reads the directives from the k-th on: `open` are the elements started and
\* not ended, innermost last; `roots` the elements ended at the outermost
\* level; ok is FALSE when a directive has no open element to belong to or an
\* element stays open
Rebuild(dirs, k, open, roots) ==
  IF k > Len(dirs)
    THEN [ok |-> open = <<>>, roots |-> roots]
    ELSE
      LET d == dirs[k]
          n == Len(open)
      IN CASE d.d = "start" -> Rebuild(dirs, k + 1, Append(open, Open(d)), roots)
           [] d.d = "characters" ->
                IF n = 0
                  THEN [ok |-> FALSE, roots |-> roots]
                  ELSE Rebuild(dirs, k + 1,
                               [open EXCEPT ![n].content =
                                  Append(@, [kind |-> "Text", text |-> d.text])],
                               roots)
           [] d.d = "end" ->
                IF n = 0
                  THEN [ok |-> FALSE, roots |-> roots]
                  ELSE IF n = 1
                    THEN Rebuild(dirs, k + 1, <<>>, Append(roots, open[1]))
                    ELSE Rebuild(dirs, k + 1,
                                 [SubSeq(open, 1, n - 1) EXCEPT ![n - 1].content =
                                    Append(@, [kind |-> "Child", node |-> open[n]])],
                                 roots)

RECURSIVE Shape(_)

\* what reading back the directives of a tree must give: per element its start
\* directive and its content items in stored order
Shape(e) ==
  [start |-> RuleStart(e.name),
   content |-> [i \in 1..Len(e.content) |->
                  IF e.content[i].kind = "Text"
                    THEN [kind |-> "Text", text |-> e.content[i].text]
                    ELSE [kind |-> "Child", node |-> Shape(e.content[i].elem)]]]

IsEnd(dir) == dir.d = "end"

\* C16: for every tree the directives serialize writes are, per element, one
\* start directive, the content items in stored order (a Text item as one
\* characters directive, a Child item as the child's whole serialization) and
\* one end directive: the sequence is balanced and properly nested, reads back
\* as exactly the tree, and holds as many start directives, and as many end
\* directives, as the tree has elements
C16_EventShape ==
  Formatted =>
    LET r == Rebuild(sink, 1, <<>>, <<>>)
    IN /\ r.ok
       /\ r.roots = <<Shape(Unwrap(tree))>>
       /\ Len(SelectSeq(sink, IsStart)) = ElemCount(Unwrap(tree))
       /\ Len(SelectSeq(sink, IsEnd)) = ElemCount(Unwrap(tree))

\* a root holding a Text item and then an empty child element was serialized
C16_Witness ==
  /\ Formatted
  /\ Len(Unwrap(tree).content) = 2
  /\ Unwrap(tree).content[1].kind = "Text"
  /\ Unwrap(tree).content[2].kind = "Child"
  /\ Len(sink) = 5
  /\ sink[2].d = "characters" /\ sink[3].d = "start" /\ sink[4].d = "end"

RECURSIVE SegmentEnd(_, _, _)

\* the index of the directive that ends the item starting at the k-th
\* directive, by counting start and end directives
SegmentEnd(dirs, k, depth) ==
  LET nd == depth + (IF dirs[k].d = "start" THEN 1 ELSE IF dirs[k].d = "end" THEN -1 ELSE 0)
  IN IF nd <= 0 \/ k = Len(dirs) THEN k ELSE SegmentEnd(dirs, k + 1, nd)

RECURSIVE Segments(_, _)

\* the directive sequence cut into its outermost items, from the k-th on
Segments(dirs, k) ==
  IF k > Len(dirs)
    THEN <<>>
    ELSE LET e == SegmentEnd(dirs, k, 0)
         IN <<SubSeq(dirs, k, e)>> \o Segments(dirs, e + 1)

\* the directives written for each content item of the root
ItemSegments == Segments(SubSeq(sink, 2, Len(sink) - 1), 1)

\* C13: the serializer is deterministic: two content items of the root that
\* are identical trees get identical directive sequences, and the directives
\* written for a child inside its parent are those of a call of serialize on
\* that child alone, whatever siblings were serialized before it
C13_Determinism ==
  Formatted =>
    LET content == Unwrap(tree).content
        segs == ItemSegments
    IN /\ Len(segs) = Len(content)
       /\ \A i, j \in 1..Len(content) : content[i] = content[j] => segs[i] = segs[j]
       /\ \A i \in 1..Len(content) :
            content[i].kind = "Child" => segs[i] = serialize(content[i].elem)

\* a root with two identical children that carry a namespace was serialized
C13_Witness ==
  /\ Formatted
  /\ Len(Unwrap(tree).content) = 2
  /\ Unwrap(tree).content[1].kind = "Child"
  /\ Unwrap(tree).content[1] = Unwrap(tree).content[2]
  /\ IsSome(Unwrap(tree).content[1].elem.name.namespace)
  /\ Len(sink) = 6

----------------------------------------------------------------------------
(* Element::first_child_where on built trees *)

\* the closures passed as pred: |ch| ch.name == n, |ch| !ch.content.is_empty(),
\* |_| true
Preds ==
  {[kind |-> "named", name |-> n] : n \in TreeNames}
    \cup {[kind |-> "has_content"], [kind |-> "any"]}

\* pred(ch)
Holds(p, ch) ==
  CASE p.kind = "named" -> NameEq(ch.name, p.name)
    [] p.kind = "has_content" -> ch.content # <<>>
    [] p.kind = "any" -> TRUE

RECURSIVE first_child_from(_, _, _)

\* for child in &self.content { ... } None, from item i on; the reference
\* returned is the position of the item in self.content
first_child_from(content, p, i) ==
  IF i > Len(content)
    THEN None
    ELSE IF content[i].kind = "Child" /\ Holds(p, content[i].elem)
      THEN Some(i)
      ELSE first_child_from(content, p, i + 1)

RECURSIVE last_child_from(_, _, _)

last_child_from(content, p, i) ==
  IF i < 1
    THEN None
    ELSE IF content[i].kind = "Child" /\ Holds(p, content[i].elem)
      THEN Some(i)
      ELSE last_child_from(content, p, i - 1)

\* a search that returns the last matching child
last_child_where(self, p) == last_child_from(self.content, p, Len(self.content))

\* Element::first_child_where
first_child_where(self, p) == first_child_from(self.content, p, 1)

InitFind ==
  /\ tree \in {Some(e) : e \in Trees}
  /\ pred \in {Some(p) : p \in Preds}
  /\ found = None
  /\ origin = "built"
  /\ alternate = FALSE /\ sink = <<>> /\ rendered = None
  /\ fmt_ret = None /\ cause = None /\ par = <<>>
  /\ stream = <<>> /\ InitParser
  /\ lhs = NameNoNs("a") /\ rhs = NameNoNs("a") /\ eq = None

\* tree.first_child_where(pred)
Find ==
  /\ found = None
  /\ found' = Some(first_child_where(Unwrap(tree), Unwrap(pred)))
  /\ UNCHANGED <<pred, docVars, fmtVars, parserVars, nameVars, parVars>>

NextFind == Find

SpecFind == InitFind /\ [][NextFind]_vars

\* C12: first_child_where returns the earliest Child item of the element's
\* content whose element satisfies pred; Text items and grandchildren are
\* never returned; it returns None exactly when no Child item satisfies pred;
\* the element is left as it was
C12_FirstChildWhere ==
  /\ [](found # None =>
          LET r == Unwrap(found)
              content == Unwrap(tree).content
              matches == {i \in 1..Len(content) :
                            content[i].kind = "Child" /\ Holds(Unwrap(pred), content[i].elem)}
          IN /\ (r = None) <=> (matches = {})
             /\ r # None =>
                  /\ Unwrap(r) \in matches
                  /\ \A i \in matches : Unwrap(r) <= i)
  /\ [][tree' = tree]_vars

\* the second of two children is returned: the first does not satisfy pred
C12_Witness ==
  /\ found = Some(Some(2))
  /\ Len(Unwrap(tree).content) = 2
  /\ Unwrap(tree).content[1].kind = "Child"
  /\ Unwrap(pred).kind = "named"

\* no child satisfies pred although a grandchild does
C12_WitnessGrandchild ==
  /\ found = Some(None)
  /\ Unwrap(pred).kind = "named"
  /\ Len(Unwrap(tree).content) = 1
  /\ Unwrap(tree).content[1].kind = "Child"
  /\ Len(Unwrap(tree).content[1].elem.content) = 1
  /\ Unwrap(tree).content[1].elem.content[1].kind = "Child"
  /\ NameEq(Unwrap(tree).content[1].elem.content[1].elem.name, Unwrap(pred).name)

====
